---- MODULE Spec2Model ----
(***************************************************************************)
(* A model of gopro_utility.py: grouping of GoPro chip files by video      *)
(* number, the rename-only batch, and the merge batch that drives one      *)
(* ffmpeg concat process per multi-part group.                             *)
(*                                                                         *)
(* File names and paths are sequences of one-character strings, so that    *)
(* slicing, prefix/suffix tests and text comparison are computed as the    *)
(* Python code computes them.                                              *)
(***************************************************************************)
EXTENDS Integers, Sequences, FiniteSets, TLC

(***************************************************************************)
(* Bounds of the model.                                                    *)
(***************************************************************************)
\* longest directory listing explored by the grouping specification
MaxListing == 3
\* most diagnostic lines one ffmpeg process writes
MaxLines == 2
\* number of lines the stderr pipe holds before the writer blocks
PipeCap == 1
\* largest seconds field of a well-formed time marker
MaxSec == 2

(***************************************************************************)
(* Python string primitives.                                               *)
(***************************************************************************)
Min(a, b) == IF a < b THEN a ELSE b

\* code points of the characters that occur in the modelled names
Ord(c) ==
    CASE c = "." -> 46 [] c = "/" -> 47
      [] c = "0" -> 48 [] c = "1" -> 49 [] c = "2" -> 50 [] c = "3" -> 51
      [] c = "4" -> 52 [] c = "5" -> 53 [] c = "6" -> 54 [] c = "7" -> 55
      [] c = "8" -> 56 [] c = "9" -> 57
      [] c = "G" -> 71 [] c = "H" -> 72 [] c = "M" -> 77 [] c = "P" -> 80
      [] c = "_" -> 95
      [] c = "c" -> 99 [] c = "d" -> 100 [] c = "e" -> 101 [] c = "i" -> 105
      [] c = "n" -> 110 [] c = "o" -> 111 [] c = "p" -> 112 [] c = "r" -> 114
      [] c = "s" -> 115 [] c = "t" -> 116 [] c = "v" -> 118 [] c = "x" -> 120

\* s[a:b] for 0 <= a <= b: positions past the end are dropped, never an error
Slice(s, a, b) == SubSeq(s, a + 1, Min(b, Len(s)))

\* s.startswith(p)
StartsWith(s, p) == Len(s) >= Len(p) /\ SubSeq(s, 1, Len(p)) = p

\* s.endswith(p)
EndsWith(s, p) == Len(s) >= Len(p) /\ SubSeq(s, Len(s) - Len(p) + 1, Len(s)) = p

\* a < b on str: code-point lexicographic order, a proper prefix is smaller
RECURSIVE StrLess(_, _)
StrLess(a, b) ==
    IF b = << >> THEN FALSE
    ELSE IF a = << >> THEN TRUE
    ELSE IF Ord(Head(a)) # Ord(Head(b)) THEN Ord(Head(a)) < Ord(Head(b))
    ELSE StrLess(Tail(a), Tail(b))

\* x.split(os.path.sep)[-1]: the text after the last separator
RECURSIVE LastComponent(_)
LastComponent(p) ==
    IF \E i \in 1..Len(p) : p[i] = "/"
    THEN LastComponent(Tail(p))
    ELSE p

\* os.path.basename on POSIX
Basename(p) == LastComponent(p)

\* os.path.join(a, b) for a relative b
Join(a, b) == IF EndsWith(a, <<"/">>) THEN a \o b ELSE a \o <<"/">> \o b

\* str(n) for 0 <= n < 100
Digit(d) == <<"0", "1", "2", "3", "4", "5", "6", "7", "8", "9">>[d + 1]
Str(n) == IF n < 10 THEN <<Digit(n)>> ELSE <<Digit(n \div 10), Digit(n % 10)>>

(***************************************************************************)
(* The directory entries of the model.                                     *)
(***************************************************************************)
MP4 == <<".", "M", "P", "4">>
GH010001 == <<"G", "H", "0", "1", "0", "0", "0", "1">> \o MP4
GH020001 == <<"G", "H", "0", "2", "0", "0", "0", "1">> \o MP4
GH010002 == <<"G", "H", "0", "1", "0", "0", "0", "2">> \o MP4
GH020002 == <<"G", "H", "0", "2", "0", "0", "0", "2">> \o MP4
\* a second file with the part key and video number of GH010001.MP4
GH010001x == <<"G", "H", "0", "1", "0", "0", "0", "1", "x">> \o MP4
\* shorter than the camera's naming pattern, yet GH....MP4
GH1 == <<"G", "H", "1">> \o MP4
\* not a GoPro file
notes == <<"n", "o", "t", "e", "s", ".", "t", "x", "t">>

\* entries a listing of the grouping specification is drawn from
ScanNames == {GH010001, GH020001, GH010002, GH010001x, GH1, notes}
\* entries a listing of the batch specification is drawn from
BatchNames == {GH010001, GH020001, GH010002, GH020002}

\* the input directory and the folder created under it
input_directory == <<"d">>
folder_name ==
    <<"p", "r", "o", "c", "e", "s", "s", "e", "d", "_",
      "v", "i", "d", "e", "o", "s">>
output_directory == Join(input_directory, folder_name)

NoRepeat(l) == \A i, j \in 1..Len(l) : i # j => l[i] # l[j]

\* every order in which os.listdir may return at most n distinct entries of S
Listings(S, n) ==
    {l \in UNION {[1..k -> S] : k \in 0..n} : NoRepeat(l)}

(***************************************************************************)
(* group_gopro_files                                                       *)
(***************************************************************************)
\* the filter of the listing comprehension
Accepted(f) == EndsWith(f, MP4) /\ StartsWith(f, <<"G", "H">>)

\* filename[4:8]
VideoNumber(filename) == Slice(filename, 4, 8)

\* the sort key: the part number, characters 2..3 of the file name
PartKey(path) == Slice(LastComponent(path), 2, 4)

\* a grouping that never finds the existing key: every file opens a group
AddToGroupAlwaysNew(groups, video_number, path) ==
    Append(groups, [video_number |-> video_number, paths |-> <<path>>])

\* video_groups[video_number].append(path) on an insertion-ordered dict
AddToGroup(groups, video_number, path) ==
    IF \E i \in 1..Len(groups) : groups[i].video_number = video_number
    THEN [i \in 1..Len(groups) |->
            IF groups[i].video_number = video_number
            THEN [groups[i] EXCEPT !.paths = Append(@, path)]
            ELSE groups[i]]
    ELSE Append(groups, [video_number |-> video_number, paths |-> <<path>>])

RECURSIVE CollectGroups(_, _)
CollectGroups(files, groups) ==
    IF files = << >> THEN groups
    ELSE CollectGroups(Tail(files),
             AddToGroup(groups, VideoNumber(Head(files)),
                        Join(input_directory, Head(files))))

\* x goes before y in the sorted list
KeyBefore(x, y) == StrLess(PartKey(x), PartKey(y))

\* list.sort(key=...): stable, so an element goes after the elements that
\* do not compare greater than it
RECURSIVE InsertSorted(_, _)
InsertSorted(sorted, x) ==
    IF sorted = << >> THEN <<x>>
    ELSE IF KeyBefore(x, Head(sorted)) THEN <<x>> \o sorted
    ELSE <<Head(sorted)>> \o InsertSorted(Tail(sorted), x)

RECURSIVE SortPaths(_, _)
SortPaths(paths, sorted) ==
    IF paths = << >> THEN sorted
    ELSE SortPaths(Tail(paths), InsertSorted(sorted, Head(paths)))

group_gopro_files(entries) ==
    LET files == SelectSeq(entries, Accepted)
        grouped == CollectGroups(files, << >>)
    IN  [i \in 1..Len(grouped) |->
            [grouped[i] EXCEPT !.paths = SortPaths(@, << >>)]]

(***************************************************************************)
(* Files on disk.                                                          *)
(***************************************************************************)
cwd == <<"/">>

\* os.path.abspath
abspath(path) == IF Head(path) = "/" THEN path ELSE Join(cwd, path)

\* the bytes of a source file are named after it; a merged file holds the
\* bytes of its parts in order
SourceFiles(l) ==
    [p \in {abspath(Join(input_directory, l[i])) : i \in 1..Len(l)} |->
        <<Basename(p)>>]

\* f with key k set to v, k added when absent
Put(f, k, v) == [x \in DOMAIN f \cup {k} |-> IF x = k THEN v ELSE f[x]]

\* f without key k
Remove(f, k) == [x \in DOMAIN f \ {k} |-> f[x]]

(***************************************************************************)
(* create_concat_file                                                      *)
(***************************************************************************)
\* the lines written last part first
ConcatLinesReversed(video_paths) ==
    [i \in 1..Len(video_paths) |->
        [file |-> abspath(video_paths[Len(video_paths) + 1 - i])]]

\* one "file '<absolute path>'" line per part, in the order of video_paths
ConcatLines(video_paths) ==
    [i \in 1..Len(video_paths) |-> [file |-> abspath(video_paths[i])]]

\* concat_file = output_path + '.txt'
ConcatFilePath(output_path) == output_path \o <<".", "t", "x", "t">>

(***************************************************************************)
(* The diagnostic lines of ffmpeg and their parsing.                       *)
(***************************************************************************)
Num(n) == [num |-> TRUE, val |-> n]
NotANumber == [num |-> FALSE, val |-> 0]

\* a line is the colon-separated fields of the text after "time=", when
\* the line has that marker
NoiseLine == [has_time |-> FALSE, fields |-> << >>]
TimeLine(fields) == [has_time |-> TRUE, fields |-> fields]

WellFormedLines ==
    {TimeLine(<<Num(0), Num(0), Num(s)>>) : s \in 0..MaxSec}
        \cup {TimeLine(<<Num(0), Num(1), Num(0)>>)}

\* "time=N/A" and "time=00:05"
MalformedLines ==
    {TimeLine(<<NotANumber>>), TimeLine(<<Num(0), Num(5)>>)}

Lines == {NoiseLine} \cup WellFormedLines \cup MalformedLines

\* hours, minutes, seconds = map(float, time_str.split(':')) raises
RaisesValueError(fields) ==
    Len(fields) # 3 \/ \E i \in 1..Len(fields) : ~fields[i].num

\* hours * 3600 + minutes * 60 + seconds
CurrentDuration(fields) ==
    fields[1].val * 3600 + fields[2].val * 60 + fields[3].val

\* the percentage rounded up instead of down
ProgressRoundedUp(current_duration, total) ==
    Min(100, (current_duration * 100 + total - 1) \div total)

\* min(100, int((current_duration / total_duration) * 100)); for the
\* integers of the model the float expression equals the integer quotient
Progress(current_duration, total) ==
    Min(100, (current_duration * 100) \div total)

\* an update on every change of the percentage, downwards too
ShouldUpdateOnChange(progress, last) == progress # last

\* if progress > last_progress
ShouldUpdate(progress, last) == progress > last

\* what one run of ffprobe may come to: it prints the duration, or the
\* binary is missing, or it exits non-zero, or it prints no number
ProbeOutcomes ==
    {[kind |-> "ok", output |-> 3],
     [kind |-> "missing_binary", output |-> 0],
     [kind |-> "nonzero_exit", output |-> 0],
     [kind |-> "unparsable", output |-> 0]}

\* a probe whose except clause catches only the CalledProcessError of a
\* non-zero exit
get_video_duration_narrow(outcome) ==
    IF outcome.kind = "ok" THEN [raised |-> FALSE, value |-> outcome.output]
    ELSE IF outcome.kind = "nonzero_exit" THEN [raised |-> FALSE, value |-> 0]
    ELSE [raised |-> TRUE, value |-> 0]

\* get_video_duration: float(output) of a successful probe; the bare except
\* turns every failure into the return value 0, so nothing is raised
get_video_duration(outcome) ==
    IF outcome.kind = "ok" THEN [raised |-> FALSE, value |-> outcome.output]
    ELSE [raised |-> FALSE, value |-> 0]

\* the values get_video_duration may return for one part: 0 when the probe
\* fails, otherwise the part's duration in seconds
Durations == {get_video_duration(o).value : o \in ProbeOutcomes}

(***************************************************************************)
(* The state of one run of process_gopro_videos.                           *)
(***************************************************************************)
VARIABLES
    listing,        \* what os.listdir(input_directory) returns, in order
    merge_videos,   \* the merge_videos argument
    pc,             \* where the run is
    video_groups,   \* the insertion-ordered dict returned by the grouping
    gi,             \* position of the group loop in video_groups
    part_number,    \* enumerate(group_files, 1) of the rename loop
    disk,           \* media files: absolute path -> bytes
    concat_files,   \* concat files on disk: absolute path -> lines
    procs,          \* ffmpeg processes started: group position -> process
    total_duration, \* merge_videos_fast's argument
    last_progress,  \* merge_videos_fast's local
    pbar,           \* tqdm's position n, the positions it showed, and
                    \* (history) the elapsed seconds parsed so far
    eof_read,       \* readline() of the current merge has returned ''
    probed,         \* history: the ffprobe outcomes behind total_duration,
                    \* kept until merge_videos_fast is entered
    popen_calls,    \* history: video numbers subprocess.Popen was called for
    copies,         \* history: shutil.copy2 calls [src, dst, ok]
    reports         \* history: the status lines printed

vars ==
    <<listing, merge_videos, pc, video_groups, gi, part_number, disk,
      concat_files, procs, total_duration, last_progress, pbar, eof_read,
      probed, popen_calls, copies, reports>>

inputs == <<listing, merge_videos>>
merge_locals == <<total_duration, last_progress, pbar, eof_read>>

NoBar == [n |-> 0, updates |-> << >>, seen |-> << >>]

InitOn(names, longest) ==
    /\ listing \in Listings(names, longest)
    /\ merge_videos \in BOOLEAN
    /\ pc = "start"
    /\ video_groups = << >>
    /\ gi = 1
    /\ part_number = 1
    /\ disk = SourceFiles(listing)
    /\ concat_files = << >>
    /\ procs = << >>
    /\ total_duration = 0
    /\ last_progress = 0
    /\ pbar = NoBar
    /\ eof_read = FALSE
    /\ probed = << >>
    /\ popen_calls = << >>
    /\ copies = << >>
    /\ reports = << >>

Init == InitOn(BatchNames, Cardinality(BatchNames))

InitGroup == InitOn(ScanNames, MaxListing)

(***************************************************************************)
(* process_gopro_videos: the scan                                          *)
(***************************************************************************)
\* a loop that merges every group in merge mode, groups of one part too
LoopPcMergeAll(groups, merging, g) ==
    IF g > Len(groups) THEN "done"
    ELSE IF ~merging THEN "rename"
    ELSE "probe"

\* where the group loop goes with the loop variable at position g
LoopPc(groups, merging, g) ==
    IF g > Len(groups) THEN "done"
    ELSE IF ~merging THEN "rename"
    ELSE IF Len(groups[g].paths) > 1 THEN "probe"
    ELSE "copy_single"

\* create_output_directory and group_gopro_files, then the first iteration
Scan ==
    /\ pc = "start"
    /\ video_groups' = group_gopro_files(listing)
    /\ pc' = LoopPc(video_groups', merge_videos, 1)
    /\ UNCHANGED <<inputs, probed, gi, part_number, disk, concat_files, procs,
                   merge_locals, popen_calls, copies, reports>>

\* the group the loop is at, and its output path in merge mode
Group == video_groups[gi]
OutputName(video_number) == video_number \o MP4
OutputPath(video_number) == Join(output_directory, OutputName(video_number))

Report(video_number, kind, cause, code) ==
    [video_number |-> video_number, kind |-> kind, cause |-> cause,
     code |-> code]

\* the loop moves to the next group
NextGroup ==
    /\ gi' = gi + 1
    /\ part_number' = 1
    /\ pc' = LoopPc(video_groups, merge_videos, gi + 1)

(***************************************************************************)
(* process_gopro_videos: rename mode                                       *)
(***************************************************************************)
\* the new name without the part number
NewFilenameNoIndex(video_number, k) == video_number \o <<"_">> \o MP4

\* part numbers counted from 0, as enumerate does by default
NewFilenameFromZero(video_number, k) ==
    video_number \o <<"_">> \o Str(k - 1) \o MP4

\* f"{video_number}_{part_number}.MP4"
NewFilename(video_number, k) == video_number \o <<"_">> \o Str(k) \o MP4

\* a move instead of a copy: the source is gone afterwards
Copy2Move(src, dst, ok) ==
    /\ disk' = IF ok
               THEN Remove(Put(disk, abspath(dst), disk[abspath(src)]),
                           abspath(src))
               ELSE disk
    /\ copies' = Append(copies, [src |-> src, dst |-> dst, ok |-> ok])

\* shutil.copy2(src, dst), which raises OSError when ok is FALSE
Copy2(src, dst, ok) ==
    /\ disk' = IF ok THEN Put(disk, abspath(dst), disk[abspath(src)]) ELSE disk
    /\ copies' = Append(copies, [src |-> src, dst |-> dst, ok |-> ok])

\* the inner loop without its try: a failed copy ends the run
RenameCopyUncaught ==
    /\ pc = "rename"
    /\ LET old_path == Group.paths[part_number]
           new_path == Join(output_directory,
                            NewFilename(Group.video_number, part_number))
       IN  \E ok \in BOOLEAN :
             /\ Copy2(old_path, new_path, ok)
             /\ IF ok
                THEN /\ reports' = Append(reports,
                            Report(Group.video_number, "renamed", "", 0))
                     /\ IF part_number < Len(Group.paths)
                        THEN /\ part_number' = part_number + 1
                             /\ UNCHANGED <<pc, gi>>
                        ELSE NextGroup
                ELSE /\ pc' = "crashed"
                     /\ UNCHANGED <<reports, gi, part_number>>
    /\ UNCHANGED <<inputs, probed, video_groups, concat_files, procs, merge_locals,
                   popen_calls>>

\* one iteration of the inner loop: the copy and its except OSError clause
RenameCopy ==
    /\ pc = "rename"
    /\ LET old_path == Group.paths[part_number]
           new_path == Join(output_directory,
                            NewFilename(Group.video_number, part_number))
       IN  \E ok \in BOOLEAN :
             /\ Copy2(old_path, new_path, ok)
             /\ reports' = Append(reports,
                    Report(Group.video_number,
                           IF ok THEN "renamed" ELSE "copy_error", "", 0))
    /\ IF part_number < Len(Group.paths)
       THEN /\ part_number' = part_number + 1
            /\ UNCHANGED <<pc, gi>>
       ELSE NextGroup
    /\ UNCHANGED <<inputs, probed, video_groups, concat_files, procs, merge_locals,
                   popen_calls>>

(***************************************************************************)
(* process_gopro_videos: merge mode                                        *)
(***************************************************************************)
\* the else branch: a group of one part is copied; nothing catches the
\* OSError of a failed copy, which ends the run
CopySingle ==
    /\ pc = "copy_single"
    /\ \E ok \in BOOLEAN :
         /\ Copy2(Group.paths[1], OutputPath(Group.video_number), ok)
         /\ IF ok
            THEN /\ reports' = Append(reports,
                        Report(Group.video_number, "copied_single", "", 0))
                 /\ NextGroup
            ELSE /\ pc' = "crashed"
                 /\ UNCHANGED <<reports, gi, part_number>>
    /\ UNCHANGED <<inputs, probed, video_groups, concat_files, procs, merge_locals,
                   popen_calls>>

RECURSIVE SumSeq(_)
SumSeq(q) == IF q = << >> THEN 0 ELSE Head(q) + SumSeq(Tail(q))

\* total_duration = sum(get_video_duration(path) for path in file_paths);
\* an exception leaving get_video_duration would end the run
ProbeDurations ==
    /\ pc = "probe"
    /\ \E o \in [1..Len(Group.paths) -> ProbeOutcomes] :
         LET results == [i \in 1..Len(o) |-> get_video_duration(o[i])]
         IN  /\ probed' = o
             /\ IF \E i \in 1..Len(o) : results[i].raised
                THEN /\ pc' = "crashed"
                     /\ UNCHANGED total_duration
                ELSE /\ pc' = "create_concat"
                     /\ total_duration' =
                            SumSeq([i \in 1..Len(o) |-> results[i].value])
    /\ UNCHANGED <<inputs, video_groups, gi, part_number, disk, concat_files,
                   procs, last_progress, pbar, eof_read, popen_calls, copies,
                   reports>>

(***************************************************************************)
(* merge_videos_fast                                                       *)
(***************************************************************************)
\* the process object of the current merge
Process == procs[gi]

\* the function returns: its locals are gone and the loop moves on; the
\* Popen object is released, which closes the read end of the pipe
Return ==
    /\ procs' = IF gi \in DOMAIN procs
                THEN [procs EXCEPT ![gi].pipe = << >>,
                                   ![gi].stderr_open = FALSE]
                ELSE procs
    /\ total_duration' = 0
    /\ last_progress' = 0
    /\ pbar' = NoBar
    /\ eof_read' = FALSE
    /\ NextGroup

\* except Exception as e: print(...)
Except(cause) ==
    /\ reports' = Append(reports,
           Report(Group.video_number, "exception", cause, 0))
    /\ Return

\* lines 76-77: the concat file is written, or open() fails, or a write
\* fails after the file was created
CreateConcatFile ==
    /\ pc = "create_concat"
    /\ probed' = << >>
    /\ LET concat_file == ConcatFilePath(OutputPath(Group.video_number))
       IN  \E outcome \in {"written", "open_fails", "write_fails"} :
             CASE outcome = "written" ->
                    /\ concat_files' = Put(concat_files, abspath(concat_file),
                                           ConcatLines(Group.paths))
                    /\ pc' = "popen"
                    /\ UNCHANGED <<reports, gi, part_number, procs,
                                   merge_locals>>
               [] outcome = "open_fails" ->
                    /\ UNCHANGED concat_files
                    /\ Except("create_concat_file")
               [] outcome = "write_fails" ->
                    /\ concat_files' = Put(concat_files, abspath(concat_file),
                                           << >>)
                    /\ Except("create_concat_file")
    /\ UNCHANGED <<inputs, video_groups, disk, popen_calls, copies>>

\* lines 92-101: subprocess.Popen starts ffmpeg on the concat file, or
\* raises OSError; then the branch on total_duration
Popen ==
    /\ pc = "popen"
    /\ popen_calls' = Append(popen_calls, Group.video_number)
    /\ LET output_path == OutputPath(Group.video_number)
           concat_file == ConcatFilePath(output_path)
       IN  \E started \in BOOLEAN :
             IF started
             THEN /\ \E n \in 0..MaxLines :
                       procs' = Put(procs, gi,
                           [output_path |-> output_path,
                            inputs |-> concat_files[abspath(concat_file)],
                            todo |-> n,
                            pipe |-> << >>,
                            stderr_open |-> TRUE,
                            running |-> TRUE,
                            returncode |-> 0])
                  /\ pc' = IF total_duration # 0 THEN "read" ELSE "wait"
                  /\ UNCHANGED <<reports, gi, part_number, merge_locals>>
             ELSE Except("Popen")
    /\ UNCHANGED <<inputs, probed, video_groups, disk, concat_files, copies>>

\* lines 104-117: one line is read from stderr and handled
ReadLine ==
    /\ pc = "read"
    /\ Process.pipe # << >>
    /\ LET line == Head(Process.pipe)
           progress == Progress(CurrentDuration(line.fields), total_duration)
       IN  IF line.has_time /\ RaisesValueError(line.fields)
           THEN Except("parse")
           ELSE /\ procs' = [procs EXCEPT ![gi].pipe = Tail(@)]
                /\ IF ~line.has_time
                   THEN UNCHANGED <<pbar, last_progress>>
                   ELSE LET seen == Append(pbar.seen,
                                           CurrentDuration(line.fields))
                        IN  IF ShouldUpdate(progress, last_progress)
                            THEN /\ pbar' =
                                      [n |-> pbar.n + (progress - last_progress),
                                       updates |-> Append(pbar.updates,
                                           pbar.n + (progress - last_progress)),
                                       seen |-> seen]
                                 /\ last_progress' = progress
                            ELSE /\ pbar' = [pbar EXCEPT !.seen = seen]
                                 /\ UNCHANGED last_progress
                /\ UNCHANGED <<pc, gi, part_number, reports, total_duration,
                               eof_read>>
    /\ UNCHANGED <<inputs, probed, video_groups, disk, concat_files, popen_calls,
                   copies>>

\* lines 104-106 and 119: readline() returns '' once ffmpeg has closed its
\* end of the pipe and the pipe is empty
ReadEOF ==
    /\ pc = "read"
    /\ Process.pipe = << >>
    /\ ~Process.running
    /\ eof_read' = TRUE
    /\ pc' = "wait"
    /\ UNCHANGED <<inputs, probed, video_groups, gi, part_number, disk, concat_files,
                   procs, total_duration, last_progress, pbar, popen_calls,
                   copies, reports>>

\* lines 121-129: process.wait() returns when ffmpeg has exited; then the
\* concat file is removed and the outcome printed
WaitAndCleanUp ==
    /\ pc = "wait"
    /\ ~Process.running
    /\ concat_files' = Remove(concat_files,
           abspath(ConcatFilePath(OutputPath(Group.video_number))))
    /\ reports' = Append(reports,
           IF Process.returncode = 0
           THEN Report(Group.video_number, "merged", "", 0)
           ELSE Report(Group.video_number, "ffmpeg_error", "",
                       Process.returncode))
    /\ Return
    /\ UNCHANGED <<inputs, probed, video_groups, disk, popen_calls, copies>>

(***************************************************************************)
(* ffmpeg                                                                  *)
(***************************************************************************)
\* the bytes of the files a concat file lists, in order
RECURSIVE Concatenated(_)
Concatenated(lines) ==
    IF lines = << >> THEN << >>
    ELSE disk[Head(lines).file] \o Concatenated(Tail(lines))

\* ffmpeg writes one diagnostic line: into the pipe when there is room, and
\* to its death by SIGPIPE when the read end is closed
ProcWrite(p) ==
    /\ procs[p].running
    /\ procs[p].todo > 0
    /\ IF procs[p].stderr_open
       THEN /\ Len(procs[p].pipe) < PipeCap
            /\ \E line \in Lines :
                 procs' = [procs EXCEPT ![p].pipe = Append(@, line),
                                        ![p].todo = @ - 1]
       ELSE procs' = [procs EXCEPT ![p].running = FALSE,
                                   ![p].todo = 0,
                                   ![p].returncode = 1]
    /\ UNCHANGED <<inputs, probed, pc, video_groups, gi, part_number, disk,
                   concat_files, merge_locals, popen_calls, copies, reports>>

\* ffmpeg has nothing more to say and exits: with code 0 and the merged
\* file written, or with an error code and at most a truncated file
ProcExit(p) ==
    /\ procs[p].running
    /\ procs[p].todo = 0
    /\ \E code \in {0, 1} :
         /\ procs' = [procs EXCEPT ![p].running = FALSE,
                                   ![p].returncode = code]
         /\ disk' = IF code = 0
                    THEN Put(disk, abspath(procs[p].output_path),
                             Concatenated(procs[p].inputs))
                    ELSE disk
    /\ UNCHANGED <<inputs, probed, pc, video_groups, gi, part_number, concat_files,
                   merge_locals, popen_calls, copies, reports>>

(***************************************************************************)
(* Specifications                                                          *)
(***************************************************************************)
Next ==
    \/ Scan
    \/ RenameCopy
    \/ CopySingle
    \/ ProbeDurations
    \/ CreateConcatFile
    \/ Popen
    \/ ReadLine
    \/ ReadEOF
    \/ WaitAndCleanUp
    \/ \E p \in DOMAIN procs : ProcWrite(p)
    \/ \E p \in DOMAIN procs : ProcExit(p)

Spec == Init /\ [][Next]_vars

\* the grouping alone, over every listing of ScanNames up to MaxListing
SpecGroup == InitGroup /\ [][Scan]_vars

(***************************************************************************)
(* Properties                                                              *)
(***************************************************************************)
Multi(g) == Len(video_groups[g].paths) > 1

\* merge_videos_fast was called for the group at position g and has returned
MergeReturned(g) == merge_videos /\ g < gi /\ Multi(g)

ConcatFileOf(g) ==
    abspath(ConcatFilePath(OutputPath(video_groups[g].video_number)))

Running == {p \in DOMAIN procs : procs[p].running}

\* C1: once merge_videos_fast has returned, on whatever path, the concat
\* file of that merge (output path + '.txt') is not on disk.
C1_ConcatFileGone ==
    \A g \in 1..Len(video_groups) :
        MergeReturned(g) => ConcatFileOf(g) \notin DOMAIN concat_files

\* C2: a malformed time marker does not abort the merge: no merge ends in
\* the except clause because of a line it could not parse; the outcome of a
\* merge whose process was started is the one the exit code decides.
C2_MalformedSkipped ==
    \A i \in 1..Len(reports) : reports[i].cause # "parse"

\* the loop has reached the group at position g and is done with it
Attempted(g) == g < gi \/ (g = gi /\ pc = "crashed")

\* C3: in merge mode the batch is never aborted by one group's failure:
\* when the run has ended, every group of the grouping was processed.
C3_BatchNeverAborts ==
    (merge_videos /\ pc \in {"done", "crashed"}) =>
        \A g \in 1..Len(video_groups) : Attempted(g)

\* C4: the positions the progress bar shows during one merge are integers
\* in 0..100, never decrease, and never repeat twice in a row.
C4_ProgressMonotonic ==
    \A i \in 1..Len(pbar.updates) :
        /\ pbar.updates[i] \in 0..100
        /\ i > 1 => /\ pbar.updates[i - 1] <= pbar.updates[i]
                    /\ pbar.updates[i - 1] # pbar.updates[i]

\* a merge read an elapsed time beyond the total duration and then one that
\* went backwards, and showed 100 once
C4_Witness ==
    /\ pc = "read"
    /\ Len(pbar.seen) = 2
    /\ pbar.seen[1] > total_duration
    /\ pbar.seen[2] < pbar.seen[1]
    /\ pbar.updates = <<100>>

\* the merge waits for a process that cannot exit: ffmpeg has more to write
\* and the pipe nobody reads is full
MergeBlocked ==
    /\ pc = "wait"
    /\ Process.running
    /\ Process.todo > 0
    /\ Len(Process.pipe) >= PipeCap

\* C5: every merge that started ffmpeg reads stderr to end-of-stream before
\* it waits for the exit, so the merge is never stuck behind a full pipe.
C5_DrainedBeforeWait ==
    /\ pc = "wait" => eof_read
    /\ ~MergeBlocked

\* C6: at most one ffmpeg process runs at any time, and no process is
\* still running when the merge that started it has returned.
C6_OneProcessAtATime ==
    /\ Cardinality(Running) <= 1
    /\ \A g \in Running : ~MergeReturned(g)

\* the listing entries the grouping accepts, and the path each is given
AcceptedFiles == {listing[i] : i \in {j \in 1..Len(listing) : Accepted(listing[j])}}
PathOf(f) == input_directory \o <<"/">> \o f

\* the characters of a file name at offsets 4..7 and at offsets 2..3
IdentifierOf(f) == SubSeq(f, 5, Min(8, Len(f)))
PartOrderKeyOf(f) == SubSeq(f, 3, Min(4, Len(f)))

\* the places <<group, index>> at which a path occurs in the grouping
Occurrences(groups, path) ==
    UNION {{<<g, k>> : k \in {n \in 1..Len(groups[g].paths) :
                                groups[g].paths[n] = path}} :
           g \in 1..Len(groups)}

GroupsOf(groups, path) == {o[1] : o \in Occurrences(groups, path)}

\* C7: the grouping partitions the accepted files: each is in exactly one
\* group, exactly once; no group is empty or holds anything else; two files
\* share a group exactly when their identifiers (offsets 4..7) are equal.
C7_GroupingPartitions ==
    pc # "start" =>
        /\ \A f \in AcceptedFiles :
               Cardinality(Occurrences(video_groups, PathOf(f))) = 1
        /\ \A g \in 1..Len(video_groups) :
               /\ video_groups[g].paths # << >>
               /\ \A k \in 1..Len(video_groups[g].paths) :
                      \E f \in AcceptedFiles :
                          video_groups[g].paths[k] = PathOf(f)
        /\ \A f1, f2 \in AcceptedFiles :
               (GroupsOf(video_groups, PathOf(f1))
                    = GroupsOf(video_groups, PathOf(f2)))
                   <=> (IdentifierOf(f1) = IdentifierOf(f2))

\* a listing was grouped into a group of two parts or more and at least one
\* other group
C7_Witness ==
    /\ pc # "start"
    /\ Len(video_groups) >= 2
    /\ \E g \in 1..Len(video_groups) : Len(video_groups[g].paths) >= 2

\* the listings that hold the same entries in another order
Reorderings(l) ==
    {m \in [1..Len(l) -> {l[i] : i \in 1..Len(l)}] : NoRepeat(m)}

\* C8: within every group the parts ascend by part-order key (offsets 2..3)
\* under text comparison, and the order within each group is the same for
\* every order in which the directory listing returns the same files.
C8_SortedAndDeterministic ==
    pc # "start" =>
        /\ \A g \in 1..Len(video_groups) :
             \A i, j \in 1..Len(video_groups[g].paths) :
                i < j => ~StrLess(
                    PartOrderKeyOf(Basename(video_groups[g].paths[j])),
                    PartOrderKeyOf(Basename(video_groups[g].paths[i])))
        /\ \A m \in Reorderings(listing) :
             LET other == group_gopro_files(m)
             IN  \A h \in 1..Len(other) :
                   \E g \in 1..Len(video_groups) :
                      /\ video_groups[g].video_number = other[h].video_number
                      /\ video_groups[g].paths = other[h].paths

PopenCount(video_number) ==
    Cardinality({i \in 1..Len(popen_calls) : popen_calls[i] = video_number})

\* the concat file of the merge of group g could not be written
PlanFailed(g) ==
    \E i \in 1..Len(reports) :
        /\ reports[i].video_number = video_groups[g].video_number
        /\ reports[i].cause = "create_concat_file"

\* what the run does for a group of one part in merge mode: one copy to
\* '<identifier>.MP4' in the output directory, no ffmpeg, no concat file
SingleCopied(g) ==
    LET src == video_groups[g].paths[1]
        dst == output_directory \o <<"/">> \o video_groups[g].video_number
                   \o <<".", "M", "P", "4">>
    IN  /\ Cardinality({i \in 1..Len(copies) : copies[i].src = src}) = 1
        /\ \A i \in 1..Len(copies) :
               copies[i].src = src =>
                   /\ copies[i].dst = dst
                   /\ copies[i].ok => disk[abspath(dst)] = disk[abspath(src)]

\* C9 as stated: Popen is called for a group if and only if it has more
\* than one part, and then once; a group of one part is copied to
\* '<identifier>.MP4' with no ffmpeg process and no concat file.
C9_LaunchIffMultiPart ==
    merge_videos =>
        \A g \in 1..Len(video_groups) :
            /\ PopenCount(video_groups[g].video_number) <= 1
            /\ g < gi => /\ (PopenCount(video_groups[g].video_number) = 1)
                               <=> Multi(g)
                         /\ ~Multi(g) => SingleCopied(g)
            /\ ~Multi(g) => /\ PopenCount(video_groups[g].video_number) = 0
                            /\ ConcatFileOf(g) \notin DOMAIN concat_files

\* C9 amended: Popen is called at most once per group and only for groups
\* of more than one part; for such a group whose merge has returned it was
\* called exactly once unless the concat file could not be written, and
\* then not at all; a group of one part gets one copy to '<identifier>.MP4',
\* no ffmpeg process and no concat file.
C9_LaunchOnceIfPlanned ==
    merge_videos =>
        \A g \in 1..Len(video_groups) :
            /\ PopenCount(video_groups[g].video_number) <= 1
            /\ (g < gi /\ Multi(g)) =>
                  PopenCount(video_groups[g].video_number)
                      = IF PlanFailed(g) THEN 0 ELSE 1
            /\ (g < gi /\ ~Multi(g)) => SingleCopied(g)
            /\ ~Multi(g) => /\ PopenCount(video_groups[g].video_number) = 0
                            /\ ConcatFileOf(g) \notin DOMAIN concat_files

\* a merge run ended after starting ffmpeg for a group of two parts and
\* copying a group of one part
C9_Witness ==
    /\ merge_videos
    /\ pc = "done"
    /\ \E g \in 1..Len(video_groups) :
           Multi(g) /\ PopenCount(video_groups[g].video_number) = 1
    /\ \E g \in 1..Len(video_groups) :
           /\ ~Multi(g)
           /\ \E i \in 1..Len(copies) :
                  copies[i].src = video_groups[g].paths[1] /\ copies[i].ok

\* the rename loop is past the k-th part of the group at position g
RenameDone(g, k) == g < gi \/ (g = gi /\ k < part_number)

\* C10: in rename mode the k-th part (from 1) of every group's sorted order
\* is copied to '<identifier>_<k>.MP4' in the output directory, by one copy
\* per part, and no ffmpeg process is started.
C10_RenameNames ==
    ~merge_videos =>
        /\ popen_calls = << >>
        /\ procs = << >>
        /\ concat_files = << >>
        /\ \A g \in 1..Len(video_groups) :
             \A k \in 1..Len(video_groups[g].paths) :
                LET src == video_groups[g].paths[k]
                    dst == output_directory \o <<"/">>
                               \o video_groups[g].video_number \o <<"_">>
                               \o Str(k) \o <<".", "M", "P", "4">>
                    calls == {i \in 1..Len(copies) : copies[i].src = src}
                IN  /\ Cardinality(calls) = IF RenameDone(g, k) THEN 1 ELSE 0
                    /\ \A i \in calls :
                           /\ copies[i].dst = dst
                           /\ copies[i].ok =>
                                  disk[abspath(dst)] = <<Basename(src)>>

\* a rename run ended with both parts of a group copied
C10_Witness ==
    /\ ~merge_videos
    /\ pc = "done"
    /\ \E g \in 1..Len(video_groups) :
           /\ Len(video_groups[g].paths) = 2
           /\ \A k \in 1..2 :
                  \E i \in 1..Len(copies) :
                      /\ copies[i].src = video_groups[g].paths[k]
                      /\ copies[i].ok

\* the position in copies of the copy2 call for the k-th part of group g
CopyCallOf(g, k) ==
    {i \in 1..Len(copies) : copies[i].src = video_groups[g].paths[k]}

\* C11: in rename mode a failed copy is reported and stops nothing: the run
\* never ends on it, every copy2 call has its status line (an error line for
\* a failed one), and when the run has ended every part of every group was
\* attempted once, under the name of its own 1-based position.
C11_RenameFailureIsolated ==
    ~merge_videos =>
        /\ pc # "crashed"
        /\ Len(reports) = Len(copies)
        /\ \A i \in 1..Len(copies) :
               reports[i].kind = IF copies[i].ok THEN "renamed"
                                 ELSE "copy_error"
        /\ pc = "done" =>
             \A g \in 1..Len(video_groups) :
                \A k \in 1..Len(video_groups[g].paths) :
                   /\ Cardinality(CopyCallOf(g, k)) = 1
                   /\ \A i \in CopyCallOf(g, k) :
                        copies[i].dst =
                            output_directory \o <<"/">>
                                \o video_groups[g].video_number \o <<"_">>
                                \o Str(k) \o <<".", "M", "P", "4">>

\* a rename run ended in which the first copy of a two-part group failed,
\* the second part of that group was copied, and so was a later group
C11_Witness ==
    /\ ~merge_videos
    /\ pc = "done"
    /\ Len(video_groups) >= 2
    /\ Len(video_groups[1].paths) = 2
    /\ Len(copies) >= 3
    /\ ~copies[1].ok
    /\ copies[2].ok
    /\ copies[3].ok

\* what a probe outcome adds to the total: its duration, 0 when it failed
Contribution(o) == IF o.kind = "ok" THEN o.output ELSE 0

RECURSIVE TotalOf(_)
TotalOf(outcomes) ==
    IF outcomes = << >> THEN 0
    ELSE Contribution(Head(outcomes)) + TotalOf(Tail(outcomes))

\* C12: a failed probe (missing binary, non-zero exit, unparsable output)
\* gives duration 0 and raises nothing: the total handed to the merge is the
\* sum over the parts with failed probes counting 0, the merge is entered
\* whatever the probes came to, and no run ends on a probe.
C12_ProbeFailureIsZero ==
    /\ pc = "create_concat" =>
         /\ Len(probed) = Len(Group.paths)
         /\ total_duration = TotalOf(probed)
    /\ pc = "crashed" => (probed = << >> /\ ~Multi(gi))

\* the merge of a group is entered after one probe failed and one succeeded
C12_Witness ==
    /\ pc = "create_concat"
    /\ Len(probed) = 2
    /\ probed[1].kind = "unparsable"
    /\ probed[2].kind = "ok"
    /\ total_duration = 3

\* the status lines printed for the group at position g
ReportsOf(g) ==
    {i \in 1..Len(reports) :
        reports[i].video_number = video_groups[g].video_number}

\* the ffmpeg process of group g has exited, and with which code
Exited(g) == g \in DOMAIN procs /\ ~procs[g].running
ExitedZero(g) == Exited(g) /\ procs[g].returncode = 0

\* C13: every merge that has returned printed exactly one outcome: success
\* if its ffmpeg process exited with code 0, otherwise failure, naming the
\* exit code when the process exited non-zero; never success for a non-zero
\* exit code or a process that was not started.
C13_OneOutcomeByExitCode ==
    \A g \in 1..Len(video_groups) :
        MergeReturned(g) =>
            /\ Cardinality(ReportsOf(g)) = 1
            /\ \A i \in ReportsOf(g) :
                 /\ (reports[i].kind = "merged") <=> ExitedZero(g)
                 /\ (Exited(g) /\ ~ExitedZero(g)) =>
                        /\ reports[i].kind = "ffmpeg_error"
                        /\ reports[i].code = procs[g].returncode
                 /\ ~Exited(g) => reports[i].kind = "exception"

\* a file name of the shape GH????*.MP4
MatchesPattern(f) ==
    /\ Len(f) >= 10
    /\ SubSeq(f, 1, 2) = <<"G", "H">>
    /\ SubSeq(f, Len(f) - 3, Len(f)) = <<".", "M", "P", "4">>

\* C14: every key of the grouping is an identifier of exactly 4 characters,
\* the characters at offsets 4..7 of a listed name of the shape GH????*.MP4,
\* and only names of that shape are grouped: an entry such as GH1.MP4, which
\* starts with GH and ends with .MP4 but is too short, is in no group.
C14_KeysFixedWidth ==
    pc # "start" =>
        \A g \in 1..Len(video_groups) :
            /\ Len(video_groups[g].video_number) = 4
            /\ \E i \in 1..Len(listing) :
                   /\ MatchesPattern(listing[i])
                   /\ video_groups[g].video_number = SubSeq(listing[i], 5, 8)
            /\ \A k \in 1..Len(video_groups[g].paths) :
                   \E i \in 1..Len(listing) :
                       /\ MatchesPattern(listing[i])
                       /\ video_groups[g].paths[k] = PathOf(listing[i])

\* the percentage of elapsed seconds in total seconds, rounded down and
\* capped at 100
Percent(elapsed, total) ==
    LET q == (elapsed * 100) \div total
    IN  IF q > 100 THEN 100 ELSE q

\* the values shown for the elapsed times seen, starting from the value
\* last: a value is shown when it exceeds every value before it
RECURSIVE Emitted(_, _, _)
Emitted(seen, total, last) ==
    IF seen = << >> THEN << >>
    ELSE LET p == Percent(Head(seen), total)
         IN  IF p > last
             THEN <<p>> \o Emitted(Tail(seen), total, p)
             ELSE Emitted(Tail(seen), total, last)

\* C15: the diagnostic lines are read and parsed only when the total
\* duration is greater than 0, and every value the progress bar is moved to
\* is min(100, floor(elapsed / total_duration * 100)) for the elapsed
\* seconds hours*3600 + minutes*60 + seconds of the line that caused the
\* move.
C15_ProgressValue ==
    /\ (pc = "read" \/ eof_read \/ pbar # NoBar) => total_duration > 0
    /\ pbar.seen # << >> =>
           pbar.updates = Emitted(pbar.seen, total_duration, 0)
    /\ last_progress = pbar.n
    /\ pbar.updates # << >> => pbar.n = pbar.updates[Len(pbar.updates)]

\* of three seconds in total, two have elapsed, then a minute
C15_Witness ==
    /\ total_duration = 3
    /\ pbar.seen = <<2, 60>>
    /\ pbar.updates = <<66, 100>>

\* the path of the plan of group g: its output path followed by ".txt"
PlanPathOf(g) ==
    <<"/">> \o output_directory \o <<"/">> \o video_groups[g].video_number
        \o <<".", "M", "P", "4">> \o <<".", "t", "x", "t">>

\* the plan of the current group has been written in full
PlanWritten == merge_videos /\ pc \in {"popen", "read", "wait"}

\* C16: the plan written for a merge has one line per part of the group,
\* line i naming the absolute path of part i of the sorted part sequence, so
\* every part is listed exactly once and in order; the plan's path is the
\* output path of the merge followed by a fixed suffix, and two merges with
\* different output paths have different plan paths.
C16_PlanListsPartsInOrder ==
    /\ PlanWritten =>
         /\ PlanPathOf(gi) \in DOMAIN concat_files
         /\ LET plan == concat_files[PlanPathOf(gi)]
            IN  /\ Len(plan) = Len(Group.paths)
                /\ \A i \in 1..Len(plan) :
                       plan[i].file = <<"/">> \o Group.paths[i]
                /\ \A i, j \in 1..Len(plan) :
                       plan[i].file = plan[j].file => i = j
    /\ \A g \in DOMAIN procs :
         /\ procs[g].inputs = [i \in 1..Len(video_groups[g].paths) |->
                                  [file |-> <<"/">> \o video_groups[g].paths[i]]]
         /\ \A h \in DOMAIN procs :
                procs[g].output_path # procs[h].output_path =>
                    PlanPathOf(g) # PlanPathOf(h)
    /\ \A p \in DOMAIN concat_files :
           \E g \in 1..Len(video_groups) : Multi(g) /\ p = PlanPathOf(g)

\* the plan of a two-part recording listed in the order part 2, part 1
C16_Witness ==
    /\ PlanWritten
    /\ Len(listing) >= 2
    /\ listing[1] = GH020001
    /\ listing[2] = GH010001
    /\ concat_files[PlanPathOf(gi)] =
           <<[file |-> <<"/">> \o Join(input_directory, GH010001)],
             [file |-> <<"/">> \o Join(input_directory, GH020001)]>>

\* the output files on disk: everything that is not a source file
OutputsOnDisk == DOMAIN disk \ DOMAIN SourceFiles(listing)

\* the merges whose process wrote its output file
MergedOutputs == {g \in DOMAIN procs : ExitedZero(g)}

\* C17: within one run no output path is written twice: the destinations of
\* the copies are pairwise different, the output paths of the launched
\* merges are pairwise different and differ from every copy destination, so
\* each successful copy and each successful merge has an output file of its
\* own on disk.
C17_NoOutputWrittenTwice ==
    /\ \A i, j \in 1..Len(copies) :
           copies[i].dst = copies[j].dst => i = j
    /\ \A g, h \in DOMAIN procs :
           procs[g].output_path = procs[h].output_path => g = h
    /\ \A i \in 1..Len(copies) : \A g \in DOMAIN procs :
           copies[i].dst # procs[g].output_path
    /\ Cardinality(OutputsOnDisk) =
           Cardinality({i \in 1..Len(copies) : copies[i].ok})
               + Cardinality(MergedOutputs)

\* a rename run that copied both parts of two recordings
C17_Witness ==
    /\ ~merge_videos
    /\ pc = "done"
    /\ Len(video_groups) = 2
    /\ Len(copies) = 4
    /\ \A i \in 1..4 : copies[i].ok
    /\ Cardinality(OutputsOnDisk) = 4

\* path p lies inside the output directory
InOutputDirectory(p) ==
    LET prefix == <<"/">> \o input_directory \o <<"/">> \o folder_name \o <<"/">>
    IN  /\ Len(p) > Len(prefix)
        /\ SubSeq(p, 1, Len(prefix)) = prefix

\* C18: a run in either mode leaves every source file as it was: each
\* listed file is on disk with its original contents, and every path the
\* run writes or removes (copy destinations, merge outputs, plans) lies
\* inside the output directory under the input directory, where no grouped
\* source file lies.
C18_SourcesUntouched ==
    /\ \A p \in DOMAIN SourceFiles(listing) :
           /\ p \in DOMAIN disk
           /\ disk[p] = SourceFiles(listing)[p]
           /\ ~InOutputDirectory(p)
    /\ \A p \in OutputsOnDisk \cup DOMAIN concat_files : InOutputDirectory(p)
    /\ \A i \in 1..Len(copies) :
           /\ InOutputDirectory(<<"/">> \o copies[i].dst)
           /\ <<"/">> \o copies[i].src \in DOMAIN SourceFiles(listing)
    /\ \A g \in DOMAIN procs :
           InOutputDirectory(<<"/">> \o procs[g].output_path)
    /\ \A g \in 1..Len(video_groups) :
           \A k \in 1..Len(video_groups[g].paths) :
               <<"/">> \o video_groups[g].paths[k] \in DOMAIN disk

\* a merge run that merged one recording, removed its plan and copied
\* another recording
C18_Witness ==
    /\ merge_videos
    /\ pc = "done"
    /\ MergedOutputs # {}
    /\ DOMAIN concat_files = {}
    /\ \E i \in 1..Len(copies) : copies[i].ok

====
